---- MODULE Spec2Model ----
(***************************************************************************)
(* Model of the LaTeX API server of src/app.py: the three POST handlers    *)
(* Compare.post, PdfToLatex.post and PixToTex.post, one request at a time. *)
(* Every handler is cut at the calls that can raise, so that each exit     *)
(* path of the Python code is a path of the state machine.                 *)
(*                                                                         *)
(* The LaTeX pipeline sympy_to_custom(parse_latex(s)) is an external       *)
(* black box: an input string is represented by what the pipeline does on  *)
(* it (the canonical token sequence it returns, or the class of the        *)
(* exception it raises).  difflib.SequenceMatcher is modelled for          *)
(* sequences shorter than 200 elements, where its popularity heuristic     *)
(* (autojunk) is inactive, and with isjunk = None as app.py calls it.      *)
(***************************************************************************)
EXTENDS Integers, Sequences, FiniteSets, TLC

VARIABLES pc, handler, data, latex1, latex2, latex1_transformed, latex2_transformed,
          parserCalls, scorerCalls, response, raised,
          file, tmp_exists, pages, page_idx, extracted_formulas, latex_formula

vars == <<pc, handler, data, latex1, latex2, latex1_transformed, latex2_transformed,
          parserCalls, scorerCalls, response, raised,
          file, tmp_exists, pages, page_idx, extracted_formulas, latex_formula>>

compareVars == <<data, latex1, latex2, latex1_transformed, latex2_transformed>>
uploadVars == <<file, tmp_exists, pages, page_idx, extracted_formulas, latex_formula>>

(***************************************************************************)
(* Bounds of the model.                                                    *)
(***************************************************************************)
\* longest canonical token sequence the pipeline returns
MaxLen == 3
\* most characters of text in an uploaded PDF, all pages together
MaxChars == 4
\* largest number of pages of an uploaded PDF
MaxPages == 2

Tokens == {"a", "b", "c"}
TokenSeqs == UNION {[1..n -> Tokens] : n \in 0..MaxLen}

(***************************************************************************)
(* Python exceptions: the classes the handlers name, and isinstance.       *)
(* LaTeXParsingError derives from Exception, not from ValueError.          *)
(***************************************************************************)
IsInstance(exc, cls) == exc = cls \/ cls = "Exception"

\* Python's `x or y` on two class objects: a class is truthy, so x.
PyOr(x, y) == x

\* the class matched by `except ValueError or LaTeXParsingError as e`
ParseExceptClause == PyOr("ValueError", "LaTeXParsingError")

(***************************************************************************)
(* An input string of the pipeline, given by the pipeline's behaviour on   *)
(* it: exc = "none" and the token sequence returned, or the exception      *)
(* raised.  empty marks the empty string "".                               *)
(***************************************************************************)
PipelineErrors == {"ValueError", "LaTeXParsingError", "TypeError"}

Inputs ==
    {[empty |-> FALSE, exc |-> "none", toks |-> t] : t \in TokenSeqs}
    \cup {[empty |-> TRUE, exc |-> "none", toks |-> <<>>]}
    \cup {[empty |-> e, exc |-> x, toks |-> <<>>] : e \in BOOLEAN, x \in PipelineErrors}

NoInput == [empty |-> TRUE, exc |-> "none", toks |-> <<>>]

\* one string has one behaviour: the two fields cannot both be "" and differ
Consistent(x, y) == (x.empty /\ y.empty) => x = y

(***************************************************************************)
(* Responses.  status 0 stands for "no response returned by the handler".  *)
(* similarity is in hundredths of a percent (10000 is "100.00%").          *)
(***************************************************************************)
NoResponse == [status |-> 0, error |-> FALSE, prefix |-> "", similarity |-> -1,
               formulas |-> <<>>]

ErrorResponse(st, pre) == [status |-> st, error |-> TRUE, prefix |-> pre,
                           similarity |-> -1, formulas |-> <<>>]

SimilarityResponse(s) == [status |-> 200, error |-> FALSE, prefix |-> "",
                          similarity |-> s, formulas |-> <<>>]

FormulasResponse(fs) == [status |-> 200, error |-> FALSE, prefix |-> "",
                         similarity |-> -1, formulas |-> fs]

(***************************************************************************)
(* difflib.SequenceMatcher(None, a, b), as Compare.post uses it.  Indices  *)
(* are Python's (0-based); a[i] of Python is a[i+1] here.  A match is the  *)
(* triple <<i, j, k>>: a[i:i+k] = b[j:j+k].                                *)
(***************************************************************************)
RECURSIVE J2Len(_, _, _, _, _, _)
\* newj2len[j] at row i: length of the longest match ending with a[i], b[j]
J2Len(a, b, alo, blo, i, j) ==
    IF i < alo \/ j < blo \/ a[i + 1] # b[j + 1]
    THEN 0
    ELSE J2Len(a, b, alo, blo, i - 1, j - 1) + 1

RECURSIVE ScanMatches(_, _, _, _, _, _, _, _, _)
\* the two nested loops of find_longest_match: i ascending, then j ascending,
\* the best replaced only by a strictly longer match
ScanMatches(a, b, alo, ahi, blo, bhi, i, j, best) ==
    IF i >= ahi THEN best
    ELSE IF j >= bhi THEN ScanMatches(a, b, alo, ahi, blo, bhi, i + 1, blo, best)
    ELSE LET k == J2Len(a, b, alo, blo, i, j)
         IN  ScanMatches(a, b, alo, ahi, blo, bhi, i, j + 1,
                         IF k > best[3] THEN <<i - k + 1, j - k + 1, k>> ELSE best)

RECURSIVE ExtendBack(_, _, _, _, _)
\* first while loop of find_longest_match (no element is junk)
ExtendBack(a, b, alo, blo, m) ==
    IF m[1] > alo /\ m[2] > blo /\ a[m[1]] = b[m[2]]
    THEN ExtendBack(a, b, alo, blo, <<m[1] - 1, m[2] - 1, m[3] + 1>>)
    ELSE m

RECURSIVE ExtendForward(_, _, _, _, _)
\* second while loop of find_longest_match (no element is junk)
ExtendForward(a, b, ahi, bhi, m) ==
    IF m[1] + m[3] < ahi /\ m[2] + m[3] < bhi /\ a[m[1] + m[3] + 1] = b[m[2] + m[3] + 1]
    THEN ExtendForward(a, b, ahi, bhi, <<m[1], m[2], m[3] + 1>>)
    ELSE m

\* find_longest_match with the scan of b started one element late
find_longest_match_skips_blo(a, b, alo, ahi, blo, bhi) ==
    ExtendForward(a, b, ahi, bhi,
        ExtendBack(a, b, alo, blo + 1,
            ScanMatches(a, b, alo, ahi, blo + 1, bhi, alo, blo + 1, <<alo, blo, 0>>)))

find_longest_match(a, b, alo, ahi, blo, bhi) ==
    ExtendForward(a, b, ahi, bhi,
        ExtendBack(a, b, alo, blo,
            ScanMatches(a, b, alo, ahi, blo, bhi, alo, blo, <<alo, blo, 0>>)))

RECURSIVE MatchingBlocksIn(_, _, _, _, _, _)
\* the blocks get_matching_blocks collects from the region (alo, ahi, blo, bhi),
\* in sorted order: the longest match, then the regions left and right of it
MatchingBlocksIn(a, b, alo, ahi, blo, bhi) ==
    LET x == find_longest_match(a, b, alo, ahi, blo, bhi)
        i == x[1]
        j == x[2]
        k == x[3]
    IN  IF k = 0 THEN <<>>
        ELSE (IF alo < i /\ blo < j THEN MatchingBlocksIn(a, b, alo, i, blo, j) ELSE <<>>)
             \o <<x>>
             \o (IF i + k < ahi /\ j + k < bhi
                 THEN MatchingBlocksIn(a, b, i + k, ahi, j + k, bhi) ELSE <<>>)

get_matching_blocks(a, b) == MatchingBlocksIn(a, b, 0, Len(a), 0, Len(b))

RECURSIVE SumSizes(_)
SumSizes(blocks) ==
    IF blocks = <<>> THEN 0 ELSE Head(blocks)[3] + SumSizes(Tail(blocks))

\* _calculate_ratio without its special case for two empty sequences
calculate_ratio_empty_zero(matches, length) ==
    IF length # 0 THEN <<2 * matches, length>> ELSE <<0, 1>>

\* _calculate_ratio, as the fraction <<numerator, denominator>>
calculate_ratio(matches, length) ==
    IF length # 0 THEN <<2 * matches, length>> ELSE <<1, 1>>

ratio(a, b) == calculate_ratio(SumSizes(get_matching_blocks(a, b)), Len(a) + Len(b))

\* f"{r * 100:.2f}%": the fraction r in hundredths of a percent, rounded to
\* the nearest, a tie to the even neighbour
FormatPercent(r) ==
    LET n == r[1] * 10000
        d == r[2]
        q == n \div d
        rem2 == 2 * (n % d)
    IN  IF rem2 > d \/ (rem2 = d /\ q % 2 = 1) THEN q + 1 ELSE q

Similarity(a, b) == FormatPercent(ratio(a, b))

(***************************************************************************)
(* The value request.get_json() yields for a /compare request.             *)
(*   malformed: the body is not JSON, get_json raises BadRequest           *)
(*   null:      None (no body, or the JSON null)                           *)
(*   object:    a dict with the keys `keys`; v1, v2 its latex1, latex2     *)
(*   array:     a list whose string elements are `keys`                    *)
(*   number:    the number num                                             *)
(***************************************************************************)
Fields == {"latex1", "latex2"}

Body(k, ks, x, y, n) == [kind |-> k, keys |-> ks, v1 |-> x, v2 |-> y, num |-> n]

NoBody == Body("null", {}, NoInput, NoInput, 0)

Bodies ==
    {Body("malformed", {}, NoInput, NoInput, 0), NoBody}
    \cup {Body("object", ks, x, y, 0) :
            ks \in SUBSET Fields,
            x \in Inputs, y \in Inputs}
    \cup {Body("array", ks, NoInput, NoInput, 0) : ks \in SUBSET Fields}
    \cup {Body("number", {}, NoInput, NoInput, n) : n \in {0, 1}}

\* a body is listed once: an absent key has no value, and "" has one behaviour
WellFormed(d) ==
    /\ ("latex1" \notin d.keys) => d.v1 = NoInput
    /\ ("latex2" \notin d.keys) => d.v2 = NoInput
    /\ Consistent(d.v1, d.v2)

\* Python's truth value of the decoded body (`not data`)
Truthy(d) ==
    CASE d.kind = "null" -> FALSE
      [] d.kind = "number" -> d.num # 0
      [] OTHER -> d.keys # {}

\* `key in data` raises TypeError on a number
ContainsRaises(d) == d.kind = "number"

Contains(d, key) == key \in d.keys

\* `data[key]` with a string key raises TypeError on a list
GetItemRaises(d) == d.kind = "array"

(***************************************************************************)
(* Compare.post                                                            *)
(***************************************************************************)
\* the handler's own return of line 53
MissingResponse == ErrorResponse(400, "")

\* lines 60-61 / 64-65 inside lines 57, 66-67: the response for an exception
\* raised by the pipeline on the side tagged `side`
OnPipelineError(exc, side) ==
    IF IsInstance(exc, ParseExceptClause)
    THEN ErrorResponse(409, side)
    ELSE ErrorResponse(500, "")

\* Compare.post going on to latex2 after latex1 failed
Parse1Next_no_return(exc) == "compare_parse2"

\* where the handler goes after the pipeline ran on latex1 (lines 58-62)
Parse1Next(exc) == IF exc = "none" THEN "compare_parse2" ELSE "done"

\* where the handler goes after the pipeline ran on latex2 (lines 62-68)
Parse2Next(exc) == IF exc = "none" THEN "compare_score" ELSE "done"

\* line 51
CompareGetJson(body) ==
    /\ pc = "idle"
    /\ handler' = "compare"
    /\ IF body.kind = "malformed"
       THEN /\ raised' = "BadRequest"
            /\ pc' = "done"
            /\ data' = data
       ELSE /\ data' = body
            /\ pc' = "compare_validate"
            /\ raised' = raised
    /\ UNCHANGED <<latex1, latex2, latex1_transformed, latex2_transformed,
                   parserCalls, scorerCalls, response, uploadVars>>

\* lines 52-55
CompareValidate ==
    /\ pc = "compare_validate"
    /\ IF ~Truthy(data)
       THEN /\ response' = MissingResponse
            /\ pc' = "done"
            /\ UNCHANGED <<raised, latex1, latex2>>
       ELSE IF ContainsRaises(data)
       THEN /\ raised' = "TypeError"
            /\ pc' = "done"
            /\ UNCHANGED <<response, latex1, latex2>>
       ELSE IF ~Contains(data, "latex1") \/ ~Contains(data, "latex2")
       THEN /\ response' = MissingResponse
            /\ pc' = "done"
            /\ UNCHANGED <<raised, latex1, latex2>>
       ELSE IF GetItemRaises(data)
       THEN /\ raised' = "TypeError"
            /\ pc' = "done"
            /\ UNCHANGED <<response, latex1, latex2>>
       ELSE /\ latex1' = data.v1
            /\ latex2' = data.v2
            /\ pc' = "compare_parse1"
            /\ UNCHANGED <<response, raised>>
    /\ UNCHANGED <<handler, data, latex1_transformed, latex2_transformed,
                   parserCalls, scorerCalls, uploadVars>>

\* lines 57-61, 66-67
CompareParse1 ==
    /\ pc = "compare_parse1"
    /\ parserCalls' = Append(parserCalls, "latex1")
    /\ pc' = Parse1Next(latex1.exc)
    /\ IF latex1.exc = "none"
       THEN /\ latex1_transformed' = latex1.toks
            /\ response' = response
       ELSE /\ response' = OnPipelineError(latex1.exc, "latex1: ")
            /\ latex1_transformed' = latex1_transformed
    /\ UNCHANGED <<handler, data, latex1, latex2, latex2_transformed,
                   scorerCalls, raised, uploadVars>>

\* lines 62-67
CompareParse2 ==
    /\ pc = "compare_parse2"
    /\ parserCalls' = Append(parserCalls, "latex2")
    /\ pc' = Parse2Next(latex2.exc)
    /\ IF latex2.exc = "none"
       THEN /\ latex2_transformed' = latex2.toks
            /\ response' = response
       ELSE /\ response' = OnPipelineError(latex2.exc, "latex2: ")
            /\ latex2_transformed' = latex2_transformed
    /\ UNCHANGED <<handler, data, latex1, latex2, latex1_transformed,
                   scorerCalls, raised, uploadVars>>

\* lines 68-71
CompareScore ==
    /\ pc = "compare_score"
    /\ scorerCalls' = scorerCalls + 1
    /\ response' = SimilarityResponse(Similarity(latex1_transformed, latex2_transformed))
    /\ pc' = "done"
    /\ UNCHANGED <<handler, compareVars, parserCalls, raised, uploadVars>>

(***************************************************************************)
(* Uploads.  The multipart field `file` of a request is                    *)
(*   missing: absent, parse_args() aborts the request (required=True)      *)
(*   unnamed: a FileStorage without a filename, which is falsy             *)
(*   present: a FileStorage with a filename                                *)
(***************************************************************************)
Uploads == {"missing", "unnamed", "present"}

\* the text extract_text() returns for a page, as a sequence of characters
Chars == {"\\", "x", "\n"}
TextsUpTo(len) == UNION {[1..n -> Chars] : n \in 0..len}

RECURSIVE DocumentsOf(_, _)
\* the PDFs of n pages with at most `chars` characters of text: reader.pages
DocumentsOf(n, chars) ==
    IF n = 0 THEN {<<>>}
    ELSE UNION {{<<t>> \o d : d \in DocumentsOf(n - 1, chars - Len(t))} :
                t \in TextsUpTo(chars)}

Documents == UNION {DocumentsOf(n, MaxChars) : n \in 0..MaxPages}

RECURSIVE SplitFrom(_, _)
\* str.splitlines() from the characters `text` on, `cur` the line begun
SplitFrom(text, cur) ==
    IF text = <<>> THEN (IF cur # <<>> THEN <<cur>> ELSE <<>>)
    ELSE IF Head(text) = "\n" THEN <<cur>> \o SplitFrom(Tail(text), <<>>)
    ELSE SplitFrom(Tail(text), Append(cur, Head(text)))

splitlines(text) == SplitFrom(text, <<>>)

\* `"\\" in line`
HasBackslash(line) == \E i \in 1..Len(line) : line[i] = "\\"

\* [line for line in text.splitlines() if "\\" in line]
FormulaLines(text) == SelectSeq(splitlines(text), HasBackslash)

\* the new lines put in front of the list instead of behind it
Extend_in_front(list, more) == more \o list

\* extracted_formulas.extend(more)
Extend(list, more) == list \o more

\* lines 104-107 and 134-137: parse_args() and `if not file`
ParseArgs(f, next) ==
    /\ file' = f
    /\ CASE f = "missing" -> /\ raised' = "BadRequest"
                             /\ pc' = "done"
                             /\ response' = response
         [] f = "unnamed" -> /\ response' = ErrorResponse(400, "")
                             /\ pc' = "done"
                             /\ raised' = raised
         [] OTHER -> /\ pc' = next
                     /\ UNCHANGED <<response, raised>>

\* lines 109 and 139: NamedTemporaryFile(delete=False) creates the file
CreateTemp(here, next) ==
    /\ pc = here
    /\ tmp_exists' = TRUE
    /\ pc' = next
    /\ UNCHANGED <<handler, compareVars, parserCalls, scorerCalls, response, raised,
                   file, pages, page_idx, extracted_formulas, latex_formula>>

\* lines 110-111 and 140-141: file.save() inside the with block, whose exit
\* closes the file and, with delete=False, does not remove it
SaveUpload(here, next) ==
    /\ pc = here
    /\ \E saved \in BOOLEAN :
          IF saved
          THEN /\ pc' = next
               /\ raised' = raised
          ELSE /\ raised' = "Exception"
               /\ pc' = "done"
    /\ UNCHANGED <<handler, compareVars, parserCalls, scorerCalls, response, uploadVars>>

\* os.remove(file_path)
Remove == FALSE

(***************************************************************************)
(* PdfToLatex.post                                                         *)
(***************************************************************************)
\* lines 104-107
PdfParseArgs(f, doc) ==
    /\ pc = "idle"
    /\ handler' = "pdf2latex"
    /\ pages' = doc
    /\ ParseArgs(f, "pdf_tmp")
    /\ UNCHANGED <<compareVars, parserCalls, scorerCalls,
                   tmp_exists, page_idx, extracted_formulas, latex_formula>>

PdfCreateTemp == CreateTemp("pdf_tmp", "pdf_save")

PdfSave == SaveUpload("pdf_save", "pdf_open")

\* lines 113-115, 121-123
PdfOpen ==
    /\ pc = "pdf_open"
    /\ \E opened \in BOOLEAN :
          IF opened
          THEN /\ extracted_formulas' = <<>>
               /\ page_idx' = 0
               /\ pc' = "pdf_page"
               /\ UNCHANGED <<tmp_exists, response>>
          ELSE /\ tmp_exists' = Remove
               /\ response' = ErrorResponse(500, "")
               /\ pc' = "done"
               /\ UNCHANGED <<extracted_formulas, page_idx>>
    /\ UNCHANGED <<handler, compareVars, parserCalls, scorerCalls, raised,
                   file, pages, latex_formula>>

\* lines 116-123: one iteration of the loop over reader.pages
PdfPage ==
    /\ pc = "pdf_page"
    /\ page_idx < Len(pages)
    /\ \E extracted \in BOOLEAN :
          IF extracted
          THEN /\ extracted_formulas' =
                      Extend(extracted_formulas, FormulaLines(pages[page_idx + 1]))
               /\ page_idx' = page_idx + 1
               /\ UNCHANGED <<pc, tmp_exists, response>>
          ELSE /\ tmp_exists' = Remove
               /\ response' = ErrorResponse(500, "")
               /\ pc' = "done"
               /\ UNCHANGED <<extracted_formulas, page_idx>>
    /\ UNCHANGED <<handler, compareVars, parserCalls, scorerCalls, raised,
                   file, pages, latex_formula>>

\* lines 125-126, after the last page
PdfReturn ==
    /\ pc = "pdf_page"
    /\ page_idx = Len(pages)
    /\ tmp_exists' = Remove
    /\ response' = FormulasResponse(extracted_formulas)
    /\ pc' = "done"
    /\ UNCHANGED <<handler, compareVars, parserCalls, scorerCalls, raised,
                   file, pages, page_idx, extracted_formulas, latex_formula>>

(***************************************************************************)
(* PixToTex.post                                                           *)
(***************************************************************************)
\* the status of the response for OCR output the pipeline rejects (line 157)
PixParseFailure == ErrorResponse(409, "couldn't parse the string ")

\* lines 134-137
PixParseArgs(f) ==
    /\ pc = "idle"
    /\ handler' = "pix2tex"
    /\ ParseArgs(f, "pix_tmp")
    /\ UNCHANGED <<compareVars, parserCalls, scorerCalls,
                   tmp_exists, pages, page_idx, extracted_formulas, latex_formula>>

PixCreateTemp == CreateTemp("pix_tmp", "pix_save")

PixSave == SaveUpload("pix_save", "pix_ocr")

\* lines 143-149: Image.open(...).convert("RGB") and ocr_model(image)
PixOcr ==
    /\ pc = "pix_ocr"
    /\ \/ \E out \in Inputs :
             /\ latex_formula' = out
             /\ extracted_formulas' = <<out>>
             /\ pc' = "pix_validate"
             /\ UNCHANGED <<tmp_exists, response>>
       \/ /\ tmp_exists' = Remove
          /\ response' = ErrorResponse(500, "")
          /\ pc' = "done"
          /\ UNCHANGED <<latex_formula, extracted_formulas>>
    /\ UNCHANGED <<handler, compareVars, parserCalls, scorerCalls, raised,
                   file, pages, page_idx>>

\* PixToTex.post returning the canonical form instead of the OCR string
PixSuccess_converted(formulas, converted) == FormulasResponse(<<converted>>)

\* the body returned once the OCR output went through the pipeline (line 160)
PixSuccess(formulas, converted) == FormulasResponse(formulas)

\* lines 151-160
PixValidate ==
    /\ pc = "pix_validate"
    /\ parserCalls' = Append(parserCalls, "ocr")
    /\ tmp_exists' = Remove
    /\ response' = IF latex_formula.exc # "none" /\ IsInstance(latex_formula.exc, "Exception")
                   THEN PixParseFailure
                   ELSE PixSuccess(extracted_formulas, latex_formula.toks)
    /\ pc' = "done"
    /\ UNCHANGED <<handler, compareVars, scorerCalls, raised,
                   file, pages, page_idx, extracted_formulas, latex_formula>>

(***************************************************************************)
(* The server: requests are handled one after the other; nothing of a      *)
(* request outlives it except a temporary file left on disk.               *)
(***************************************************************************)
Init ==
    /\ pc = "idle"
    /\ handler = "none"
    /\ data = NoBody
    /\ latex1 = NoInput
    /\ latex2 = NoInput
    /\ latex1_transformed = <<>>
    /\ latex2_transformed = <<>>
    /\ parserCalls = <<>>
    /\ scorerCalls = 0
    /\ response = NoResponse
    /\ raised = "none"
    /\ file = "missing"
    /\ tmp_exists = FALSE
    /\ pages = <<>>
    /\ page_idx = 0
    /\ extracted_formulas = <<>>
    /\ latex_formula = NoInput

\* the response (or the exception) is handed to Flask; the next request starts
\* from fresh locals
Finish ==
    /\ pc = "done"
    /\ pc' = "idle"
    /\ handler' = "none"
    /\ data' = NoBody
    /\ latex1' = NoInput
    /\ latex2' = NoInput
    /\ latex1_transformed' = <<>>
    /\ latex2_transformed' = <<>>
    /\ parserCalls' = <<>>
    /\ scorerCalls' = 0
    /\ response' = NoResponse
    /\ raised' = "none"
    /\ file' = "missing"
    /\ tmp_exists' = FALSE
    /\ pages' = <<>>
    /\ page_idx' = 0
    /\ extracted_formulas' = <<>>
    /\ latex_formula' = NoInput

Next ==
    \/ /\ pc = "idle"
       /\ \E body \in Bodies : WellFormed(body) /\ CompareGetJson(body)
    \/ CompareValidate
    \/ CompareParse1
    \/ CompareParse2
    \/ CompareScore
    \/ /\ pc = "idle"
       /\ \E f \in Uploads, doc \in Documents :
             /\ (f # "present" => doc = <<>>)
             /\ PdfParseArgs(f, doc)
    \/ PdfCreateTemp
    \/ PdfSave
    \/ PdfOpen
    \/ PdfPage
    \/ PdfReturn
    \/ \E f \in Uploads : PixParseArgs(f)
    \/ PixCreateTemp
    \/ PixSave
    \/ PixOcr
    \/ PixValidate
    \/ Finish

Spec == Init /\ [][Next]_vars

(***************************************************************************)
(* Properties of the handlers.                                             *)
(***************************************************************************)
CompareDone == handler = "compare" /\ pc = "done"

\* get_json() returned a JSON object that has both fields
BothFields == data.kind = "object" /\ data.keys = Fields

ParseErrors == {"ValueError", "LaTeXParsingError"}

Range(seq) == {seq[i] : i \in 1..Len(seq)}

\* C1 - parse-failure isolation: when both fields are present and the parser
\* rejects latex1 with a LaTeXParsingError or a ValueError, the response is
\* 409 with an error message that starts with "latex1: ", whatever latex2 is.
C1_ParseFailureIsolation ==
    (CompareDone /\ BothFields /\ latex1.exc \in ParseErrors)
        => response = ErrorResponse(409, "latex1: ")

\* C2 - symmetry: the similarity returned for (a, b) equals the similarity
\* returned for (b, a).
C2_Symmetry ==
    (CompareDone /\ response.status = 200)
        => response.similarity = Similarity(latex2_transformed, latex1_transformed)

\* C2 as amended - for token sequences short of difflib's autojunk threshold,
\* the two orders agree at the extremes: the score of (a, b) is 100.00% exactly
\* when that of (b, a) is, which is when a = b, and it is 0.00% exactly when
\* that of (b, a) is, which is when a and b have no token in common and are
\* not both empty.
C2_SymmetryAtExtremes ==
    (CompareDone /\ response.status = 200)
        => LET s == response.similarity
               r == Similarity(latex2_transformed, latex1_transformed)
           IN  /\ (s = 10000) <=> (r = 10000)
               /\ (s = 10000) <=> (latex1_transformed = latex2_transformed)
               /\ (s = 0) <=> (r = 0)
               /\ (s = 0) <=> /\ Range(latex1_transformed) \cap Range(latex2_transformed) = {}
                              /\ latex1_transformed \o latex2_transformed # <<>>

\* two different sequences with tokens in common were scored, and the other
\* order scores differently
C2_Witness ==
    /\ CompareDone
    /\ response.status = 200
    /\ latex1_transformed = <<"a", "b", "a">>
    /\ latex2_transformed = <<"b", "c", "a">>
    /\ response.similarity = 3333

\* C3 - idempotence: with latex1 = latex2 = x and x accepted by the pipeline,
\* the response is 200 with similarity exactly "100.00%", for every length of
\* the canonical sequence, the empty one included.
C3_Idempotence ==
    (CompareDone /\ BothFields /\ latex1 = latex2 /\ latex1.exc = "none")
        => response = SimilarityResponse(10000)

\* a sequence with a repeated token was compared with itself
C3_Witness ==
    /\ CompareDone
    /\ BothFields
    /\ latex1 = latex2
    /\ latex1.exc = "none"
    /\ latex1.toks = <<"a", "b", "a">>
    /\ scorerCalls = 1

\* C4 - missing-field handling: when the decoded body is absent or lacks
\* latex1 or latex2, the response is 400 with an error body and neither the
\* parser nor the scorer is invoked.
C4_MissingField ==
    (CompareDone /\ raised # "BadRequest"
        /\ (data.kind = "null" \/ data.kind # "object" \/ data.keys # Fields))
        => /\ response = ErrorResponse(400, "")
           /\ parserCalls = <<>>
           /\ scorerCalls = 0

\* C5 - temp-file cleanup: once the temporary upload file has been created,
\* it has been deleted by the time /pdf2latex or /pix2tex exits, on every path.
C5_TempFileCleanup ==
    (handler \in {"pdf2latex", "pix2tex"} /\ pc = "done") => ~tmp_exists

\* C6 - error containment: no exception leaves Compare.post, every request
\* ends with a response in {200, 400, 409, 500}, and an error of the pipeline
\* that is not a parse or value error is answered with status 500.
C6_ErrorContainment ==
    CompareDone
        => /\ raised = "none"
           /\ response.status \in {200, 400, 409, 500}
           /\ (response.status # 200 => response.error)
           /\ \A side \in {latex1, latex2} :
                 (side.exc = "TypeError" /\ response.prefix = "")
                     => response = ErrorResponse(500, "")

AllFormulaLines(doc) ==
    LET F[i \in 0..Len(doc)] ==
            IF i = 0 THEN <<>> ELSE F[i - 1] \o splitlines(doc[i])
    IN  SelectSeq(F[Len(doc)], HasBackslash)

\* C7 - PDF extraction filter: on success formulas is exactly the text lines
\* of the PDF that contain a backslash, each unmodified, in page order and line
\* order, none omitted or duplicated, and no line without a backslash.
C7_PdfFilter ==
    (handler = "pdf2latex" /\ pc = "done" /\ response.status = 200)
        => /\ response = FormulasResponse(AllFormulaLines(pages))
           /\ \A i \in 1..Len(response.formulas) :
                 /\ "\\" \in Range(response.formulas[i])
                 /\ "\n" \notin Range(response.formulas[i])

\* two pages, a formula on each, and the empty first line of page 2 left out
C7_Witness ==
    /\ handler = "pdf2latex"
    /\ pc = "done"
    /\ pages = << <<"\\">>, <<"\n", "\\", "x">> >>
    /\ response.formulas = << <<"\\">>, <<"\\", "x">> >>

\* C8 - /pix2tex outcomes: 500 with an error body if opening the image or the
\* OCR model raises; 409 with an error body, never a success, if the OCR output
\* fails to parse or serialize; otherwise a success whose formulas list is the
\* one raw OCR string.
C8_PixOutcomes ==
    (handler = "pix2tex" /\ pc = "done" /\ file = "present" /\ raised = "none")
        => IF extracted_formulas = <<>>
           THEN response = ErrorResponse(500, "") /\ parserCalls = <<>>
           ELSE /\ parserCalls = <<"ocr">>
                /\ IF latex_formula.exc # "none"
                   THEN response.status = 409 /\ response.error
                   ELSE response = FormulasResponse(<<latex_formula>>)

\* the OCR produced a string and the pipeline rejected it
C8_Witness ==
    /\ handler = "pix2tex"
    /\ pc = "done"
    /\ parserCalls = <<"ocr">>
    /\ latex_formula.exc = "LaTeXParsingError"
    /\ response.status = 409

\* C9 - fail-fast ordering: latex1 goes through the pipeline before latex2; if
\* it fails, the pipeline is never run on latex2; an error tagged "latex2: "
\* occurs only when latex1 succeeded; the scorer runs only after both did.
C9_FailFast ==
    handler = "compare"
        => /\ parserCalls \in {<<>>, <<"latex1">>, <<"latex1", "latex2">>}
           /\ (latex1.exc # "none" => parserCalls # <<"latex1", "latex2">>)
           /\ (response.prefix = "latex2: "
                  => latex1.exc = "none" /\ parserCalls = <<"latex1", "latex2">>)
           /\ scorerCalls \in {0, 1}
           /\ (scorerCalls = 1
                  => /\ parserCalls = <<"latex1", "latex2">>
                     /\ latex1.exc = "none"
                     /\ latex2.exc = "none")

\* latex1 was rejected while latex2 alone would have parsed
C9_Witness ==
    /\ CompareDone
    /\ BothFields
    /\ latex1.exc = "ValueError"
    /\ latex2 = [empty |-> FALSE, exc |-> "none", toks |-> <<"a">>]
    /\ parserCalls = <<"latex1">>

\* C10 - non-empty validation: when latex1 or latex2 is present but is the
\* empty string, the request fails with status 400 before the parser is
\* invoked on either input.
C10_NonEmptyValidation ==
    (handler = "compare" /\ BothFields /\ (data.v1.empty \/ data.v2.empty))
        => /\ parserCalls = <<>>
           /\ (pc = "done" => response = ErrorResponse(400, ""))

====
